---- MODULE Spec2Model ----
(***************************************************************************)
(* Model of prompt2model's dataset generation core:                        *)
(*   src/prompt2model/dataset_generator/openai_gpt.py                      *)
(*     OpenAIDatasetGenerator.__init__, generate_prompt, extract_response, *)
(*     generate_dataset_split                                              *)
(* and of the consensus reconciler (construct_input_output_map,            *)
(* apply_multi_vote_to_construct_generated_dataset,                        *)
(* convert_generated_examples_to_generated_dataset) that the tests in      *)
(* src/tests/dataset_generator_with_filter_test.py exercise.               *)
(*                                                                         *)
(* Two specifications:                                                     *)
(*   Spec      the generator: construction, then calls of                  *)
(*             generate_dataset_split, each cut at the network call.       *)
(*   VoteSpec  the reconciler as a pure pipeline over a drawn list of      *)
(*             generated examples.                                         *)
(***************************************************************************)
EXTENDS Integers, Sequences, FiniteSets, TLC

\* ---------------------------------------------------------------- bounds
\* largest max_api_calls argument given to the constructor
MaxApiCalls == 3
\* largest num_examples argument given to generate_dataset_split
MaxNumExamples == 5
\* cap on the number of dispatched calls of one run (unlimited budgets)
MaxCalls == 3
\* number of generate_dataset_split calls made on one generator
MaxSplits == 3
\* candidates (choices) carried by one API response
MaxChoices == 2
\* longest generated_examples list handed to the reconciler
MaxRaw == 5
\* longest API key string tried by the constructor
MaxKeyLen == 2
\* examples parsed in a row when the window is followed past its capacity
MaxParsed == 12
\* longest field value of the completions handed to extract_response alone
MaxFieldLen == 1
\* longest window handed to generate_prompt alone
MaxWindow == 3
\* most transform prompts handed to transform_data
MaxPrompts == 201
\* longest lists handed to make_dataset_from_samples alone
MaxSamples == 2
\* largest label in the responses handed to response_mining
MaxLabel == 1
\* most sessions of the demo started one after the other
MaxSessions == 3

\* capacity of recent_10_generated_examples
WindowCap == 10
\* prompts per super-batch of transform_data
SuperBatchSize == 100
\* failed transforms transform_data puts up with
MaxAllowedFailedTransforms == 1000

\* ------------------------------------------------------- optional values
\* Python's None / a present value, as a sequence of length 0 / 1
None == <<>>
Some(x) == <<x>>
NoExc == "None"

\* ------------------------------------------------------------------ text
\* a Python string is a tuple of one-character strings
WS == " "

RECURSIVE LStrip(_)
LStrip(s) ==
    IF s = <<>> THEN <<>>
    ELSE IF Head(s) = WS THEN LStrip(Tail(s)) ELSE s

RECURSIVE RStrip(_)
RStrip(s) ==
    IF s = <<>> THEN <<>>
    ELSE IF s[Len(s)] = WS THEN RStrip(SubSeq(s, 1, Len(s) - 1)) ELSE s

\* str.strip()
Strip(s) == RStrip(LStrip(s))

\* --------------------------------------------------- completion contents
\* The text of one completion: whether json.loads accepts it, the keys of
\* the decoded object and the values stored under "input" and "output".
Content(wf, ks, inp, out) ==
    [wellformed |-> wf, keys |-> ks, input |-> inp, output |-> out]

\* '{"input": "6", "output": "f"}'
MOCK_EXAMPLE == Content(TRUE, {"input", "output"}, <<"6">>, <<"f">>)
\* '{"input": " 1 ", "output": "a "}'
PADDED_EXAMPLE == Content(TRUE, {"input", "output"}, <<WS, "1", WS>>, <<"a", WS>>)
\* '{"input": "This is a great movie!", "label": "1"}'
MOCK_WRONG_KEY_EXAMPLE == Content(TRUE, {"input", "label"}, <<"T">>, <<>>)
\* '{"input": "This is a great movie!", "output": "1}'
MOCK_INVALID_JSON == Content(FALSE, {}, <<>>, <<>>)

Contents == {MOCK_EXAMPLE, PADDED_EXAMPLE, MOCK_WRONG_KEY_EXAMPLE, MOCK_INVALID_JSON}

\* an API response: its choices, each the content of one candidate
Responses == UNION {[1..n -> Contents] : n \in 1..MaxChoices}

\* ------------------------------------------------------------ exceptions
\* what ChatGPTAgent.generate_openai_chat_completion can raise
RetryableErrors == {"APIError", "Timeout", "RateLimitError", "ServiceUnavailableError"}
FatalErrors == {"AuthenticationError", "InvalidRequestError", "UNKNOWN_GPT3_EXCEPTION"}
ClientErrors == RetryableErrors \cup FatalErrors

\* prompt2model.utils.OPENAI_ERRORS: the exception classes the generator's
\* except clause catches
OPENAI_ERRORS == RetryableErrors \cup {"JSONDecodeError", "AssertionError"}

\* error handler that gives the unit of the failed call back to the budget
handle_openai_error_Refunds(e, counter) == counter - 1

\* prompt2model.utils.handle_openai_error(e, api_call_counter) for a caught
\* error: backs off and hands the counter back
handle_openai_error(e, counter) == counter

\* --------------------------------------------------------- pure functions
\* extract_response applied to the content of one choice: json.loads, the
\* required keys, str(...).strip()
extract_content(content) ==
    IF ~content.wellformed
    THEN [exc |-> "JSONDecodeError", input |-> <<>>, output |-> <<>>]
    ELSE IF {key \in {"input", "output"} : key \notin content.keys} # {}
    THEN [exc |-> "AssertionError", input |-> <<>>, output |-> <<>>]
    ELSE [exc |-> NoExc, input |-> Strip(content.input), output |-> Strip(content.output)]

\* extract_response reads response.choices[0] only
extract_response(response) == extract_content(response[1])

\* template choice whose MIDDLE range starts one example too early
TemplateType_MiddleFromThree(k) ==
    IF 0 <= k /\ k <= 2 THEN "COMPLEX"
    ELSE IF 3 <= k /\ k <= 7 THEN "MIDDLE"
    ELSE "SIMPLE"

\* template chosen by generate_prompt for k sampled window examples
TemplateType(k) ==
    IF 0 <= k /\ k <= 3 THEN "COMPLEX"
    ELSE IF 4 <= k /\ k <= 7 THEN "MIDDLE"
    ELSE "SIMPLE"

\* the numbers of sampled examples generate_prompt can draw
SelectedNums(window) ==
    IF Len(window) = 0 THEN {0} ELSE 1..Len(window)

\* Dataset.from_dict({"input_col": ..., "output_col": ...})
Dataset(ins, outs) == [input_col |-> ins, output_col |-> outs]

\* budget test that stops the loop one call before the budget is used up
BudgetReached_TooEarly(max, counter) ==
    /\ max # None
    /\ max[1] # 0
    /\ counter + 1 >= max[1]

\* budget test that lets one call too many through (> for >=)
BudgetReached_OffByOne(max, counter) ==
    /\ max # None
    /\ max[1] # 0
    /\ counter > max[1]

\* the budget test of generate_dataset_split
BudgetReached(max, counter) ==
    /\ max # None
    /\ max[1] # 0
    /\ counter >= max[1]

\* counting one unit per requested candidate instead of one per call
CounterAfterDispatch_PerCandidate(counter) == counter + MaxChoices

\* self.api_call_counter += 1
CounterAfterDispatch(counter) == counter + 1

\* window that evicts only once it already holds more than ten examples
WindowAfter_EvictsLate(window, example) ==
    Append(IF Len(window) > WindowCap THEN Tail(window) ELSE window, example)

\* recent_10_generated_examples after one more parsed example
WindowAfter(window, example) ==
    Append(IF Len(window) = WindowCap THEN Tail(window) ELSE window, example)

\* ------------------------------------------------------------------ state
VARIABLES
    max_api_calls,                 \* self.max_api_calls
    api_call_counter,              \* self.api_call_counter
    recent_10_generated_examples,  \* self.recent_10_generated_examples
    pc,                            \* position of the caller / of generate_dataset_split
    num_examples,                  \* argument of the running generate_dataset_split
    iter,                          \* iterations of the for loop completed
    input_cols,                    \* local input_cols
    output_cols,                   \* local output_cols
    prompt,                        \* prompt of the last dispatched call
    response,                      \* last response received (<<>>: none)
    caught,                        \* exception caught by the except clause
    raised,                        \* exception that left generate_dataset_split
    result,                        \* Dataset returned by the last call
    split_no,                      \* generate_dataset_split calls started
    call_count,                    \* calls of generate_openai_chat_completion
    attempt,                       \* dispatches of the current for iteration
    retry_count,                   \* exceptions handled by the except clause
    fatal_calls,                   \* calls that raised a non-retryable error
    cache_root                     \* the Example Cache: artifact of each split

genvars == <<max_api_calls, api_call_counter, recent_10_generated_examples, pc,
             num_examples, iter, input_cols, output_cols, prompt, response,
             caught, raised, result, split_no, call_count, attempt,
             retry_count, fatal_calls, cache_root>>

\* the reconciler's state
VARIABLES
    generated_examples,            \* self.generated_examples
    input_output_map,              \* self.input_output_map (insertion ordered)
    generated_dataset,             \* self.generated_dataset
    vote_pc                        \* stage of the reconciliation pipeline

votevars == <<generated_examples, input_output_map, generated_dataset, vote_pc>>

\* the constructor's view of the API key
VARIABLES
    api_key_arg,                   \* argument api_key (None or a string)
    environ_key,                   \* os.environ: OPENAI_API_KEY (None: not set)
    api_key,                       \* self.api_key
    ctor_exc,                      \* exception raised by __init__
    key_pc                         \* "unused", "args", "constructed", "failed"

keyvars == <<api_key_arg, environ_key, api_key, ctor_exc, key_pc>>

\* generate_prompt called on its own
VARIABLES
    few_shot_example_string,       \* argument few_shot_example_string
    random_example_string,         \* the example string returned, line by line
    prompt_pc                      \* "unused", "args", "returned"

promptvars == <<few_shot_example_string, random_example_string, prompt_pc>>

\* PromptBasedDatasetTransformer: transform_data, make_dataset_from_samples
VARIABLES
    transform_prompts,             \* number of prompts; the prompts are 1..n
    parse_outcome,                 \* what find_and_parse_json makes of a response
    batch_indices,                 \* loop variable of the super-batch loop
    responses,                     \* local responses (None: not assigned yet)
    inputs,                        \* local inputs / argument inputs
    outputs,                       \* local outputs / argument outputs
    curr_failed_transforms,        \* local curr_failed_transforms
    dispatched,                    \* super-batches handed to the API so far
    outstanding,                   \* requests sent and not yet gathered
    tf_exc,                        \* exception that left the function
    dataset_dict,                  \* the DatasetDict returned
    tf_pc                          \* position in the function

tfvars == <<transform_prompts, parse_outcome, batch_indices, responses, inputs,
            outputs, curr_failed_transforms, dispatched, outstanding, tf_exc,
            dataset_dict, tf_pc>>

\* ClassifyTaskGenerator.response_mining
VARIABLES
    mining_content,                \* content of response.choices[0]
    mining_result,                 \* the pair returned
    mining_pc                      \* "unused", "args", "returned", "raised"

minevars == <<mining_content, mining_result, mining_pc>>

\* prompt2model_demo.main
VARIABLES
    status_yaml,                   \* the file status.yaml (None: no file)
    status,                        \* the dict status: the keys set to True
    has_been,                      \* the local ..._has_been_... flags that are True
    demo_pc,                       \* 0: the question, k: at the k-th stage, 6: end
    session_no,                    \* sessions started
    answer,                        \* the answer to "start from scratch?"
    finished                       \* stages that ran to their end since the
                                   \* last start from scratch

demovars == <<status_yaml, status, has_been, demo_pc, session_no, answer, finished>>

auxvars == <<promptvars, tfvars, minevars, demovars>>

vars == <<genvars, votevars, keyvars, auxvars>>

NoPrompt == [template_type |-> "NONE", num |-> 0]

\* ------------------------------------------------------------ constructor
\* max_api_calls arguments tried: None, and the integers -1..MaxApiCalls
MaxApiCallsArgs == {None} \cup {Some(n) : n \in (-1)..MaxApiCalls}

\* "if max_api_calls: assert max_api_calls > 0"
ConstructorAccepts(max) ==
    (max # None /\ max[1] # 0) => max[1] > 0

\* ------------------------------------------------------------ example cache
\* the split ids, in the order in which the splits are generated
SplitIds == <<"train", "val", "test">>

\* split id of the k-th generate_dataset_split call
SplitOf(k) == SplitIds[((k - 1) % Len(SplitIds)) + 1]

\* a list saved by an earlier run; it reconciles to two rows
SavedExamples ==
    <<[input_col |-> <<"1">>, output_col |-> <<"a">>],
      [input_col |-> <<"1">>, output_col |-> <<"b">>],
      [input_col |-> <<"2">>, output_col |-> <<"a">>]>>

\* cache directory holding no artifact
EmptyCacheRoot == [s \in {SplitIds[k] : k \in DOMAIN SplitIds} |-> None]

\* cache directories a generator is started on: empty, or holding the
\* artifact of the first split
CacheRoots ==
    {EmptyCacheRoot,
     [EmptyCacheRoot EXCEPT ![SplitOf(1)] = Some(SavedExamples)]}

\* ---------------------------------------------- components not in use
PromptIdle ==
    /\ few_shot_example_string = None
    /\ random_example_string = <<>>
    /\ prompt_pc = "unused"

TfIdle ==
    /\ transform_prompts = 0
    /\ parse_outcome = <<>>
    /\ batch_indices = 0
    /\ responses = None
    /\ inputs = <<>>
    /\ outputs = <<>>
    /\ curr_failed_transforms = 0
    /\ dispatched = <<>>
    /\ outstanding = 0
    /\ tf_exc = NoExc
    /\ dataset_dict = None
    /\ tf_pc = "unused"

MineIdle ==
    /\ mining_content = None
    /\ mining_result = None
    /\ mining_pc = "unused"

DemoIdle ==
    /\ status_yaml = None
    /\ status = {}
    /\ has_been = {}
    /\ demo_pc = 0
    /\ session_no = 0
    /\ answer = "none"
    /\ finished = <<>>

AuxIdle == PromptIdle /\ TfIdle /\ MineIdle /\ DemoIdle

\* ---------------------------------------------------------------- API key
\* key strings: all strings over two characters up to MaxKeyLen, "" included
KeyStrings == UNION {[1..n -> {"k", "e"}] : n \in 0..MaxKeyLen}

\* an optional key string
OptionalKeys == {None} \cup {Some(k) : k \in KeyStrings}

\* Python truth value of an optional string: None and "" are false
Truthy(opt) == opt # None /\ opt[1] # <<>>

\* a generator constructed with the key "k" given as argument
KeyIdle ==
    /\ api_key_arg = Some(<<"k">>)
    /\ environ_key = None
    /\ api_key = Some(<<"k">>)
    /\ ctor_exc = NoExc
    /\ key_pc = "unused"

\* the reconciler before any list was handed to it
VoteIdle ==
    /\ generated_examples = <<>>
    /\ input_output_map = <<>>
    /\ generated_dataset = None
    /\ vote_pc = "unused"

Init ==
    /\ VoteIdle
    /\ KeyIdle
    /\ AuxIdle
    /\ cache_root \in CacheRoots
    /\ max_api_calls \in MaxApiCallsArgs
    \* a generator resuming from an artifact is constructed without a budget
    /\ cache_root # EmptyCacheRoot => max_api_calls = None
    /\ api_call_counter = 0
    /\ recent_10_generated_examples = <<>>
    /\ pc = IF ConstructorAccepts(max_api_calls) THEN "idle" ELSE "assert_failed"
    /\ num_examples = 0
    /\ iter = 0
    /\ input_cols = <<>>
    /\ output_cols = <<>>
    /\ prompt = NoPrompt
    /\ response = <<>>
    /\ caught = NoExc
    /\ raised = NoExc
    /\ result = None
    /\ split_no = 0
    /\ call_count = 0
    /\ attempt = 0
    /\ retry_count = 0
    /\ fatal_calls = 0

\* ------------------------------------------------- generate_dataset_split
\* entry that also starts a fresh budget for the split
GenerateDatasetSplit_ResetsCounter(n) ==
    /\ pc = "idle"
    /\ split_no < MaxSplits
    /\ pc' = "try"
    /\ num_examples' = n
    /\ iter' = 0
    /\ input_cols' = <<>>
    /\ output_cols' = <<>>
    /\ prompt' = NoPrompt
    /\ response' = <<>>
    /\ caught' = NoExc
    /\ result' = None
    /\ split_no' = split_no + 1
    /\ attempt' = 0
    /\ api_call_counter' = 0
    /\ UNCHANGED votevars
    /\ UNCHANGED cache_root
    /\ UNCHANGED keyvars
    /\ UNCHANGED auxvars
    /\ UNCHANGED <<max_api_calls, recent_10_generated_examples,
                   raised, call_count, retry_count, fatal_calls>>

\* entry that fails when the split has no artifact in the cache
GenerateDatasetSplit_MissingCacheRaises(n) ==
    /\ pc = "idle"
    /\ split_no < MaxSplits
    /\ IF cache_root[SplitOf(split_no + 1)] = None
       THEN /\ pc' = "raised"
            /\ raised' = "FileNotFoundError"
       ELSE /\ pc' = "try"
            /\ raised' = raised
    /\ num_examples' = n
    /\ iter' = 0
    /\ input_cols' = <<>>
    /\ output_cols' = <<>>
    /\ prompt' = NoPrompt
    /\ response' = <<>>
    /\ caught' = NoExc
    /\ result' = None
    /\ split_no' = split_no + 1
    /\ attempt' = 0
    /\ UNCHANGED votevars
    /\ UNCHANGED cache_root
    /\ UNCHANGED keyvars
    /\ UNCHANGED auxvars
    /\ UNCHANGED <<max_api_calls, api_call_counter, recent_10_generated_examples,
                   call_count, retry_count, fatal_calls>>

\* entry: the locals are created
GenerateDatasetSplit(n) ==
    /\ pc = "idle"
    /\ split_no < MaxSplits
    /\ pc' = "try"
    /\ num_examples' = n
    /\ iter' = 0
    /\ input_cols' = <<>>
    /\ output_cols' = <<>>
    /\ prompt' = NoPrompt
    /\ response' = <<>>
    /\ caught' = NoExc
    /\ result' = None
    /\ split_no' = split_no + 1
    /\ attempt' = 0
    /\ UNCHANGED votevars
    /\ UNCHANGED cache_root
    /\ UNCHANGED keyvars
    /\ UNCHANGED auxvars
    /\ UNCHANGED <<max_api_calls, api_call_counter, recent_10_generated_examples,
                   raised, call_count, retry_count, fatal_calls>>

\* return that keeps only the first row of every input
ReturnComplete_Filters ==
    /\ pc = "try"
    /\ iter = num_examples
    /\ pc' = "idle"
    /\ LET idx[j \in 0..Len(input_cols)] ==
               IF j = 0 THEN <<>>
               ELSE IF \E k \in 1..(j - 1) : input_cols[k] = input_cols[j]
                    THEN idx[j - 1]
                    ELSE Append(idx[j - 1], j)
           keep == idx[Len(input_cols)]
       IN result' = Some(Dataset([r \in DOMAIN keep |-> input_cols[keep[r]]],
                                 [r \in DOMAIN keep |-> output_cols[keep[r]]]))
    /\ UNCHANGED votevars
    /\ UNCHANGED cache_root
    /\ UNCHANGED keyvars
    /\ UNCHANGED auxvars
    /\ UNCHANGED <<max_api_calls, api_call_counter, recent_10_generated_examples,
                   num_examples, iter, input_cols, output_cols, prompt, response,
                   caught, raised, split_no, call_count, attempt, retry_count,
                   fatal_calls>>

\* the for loop is over: return Dataset.from_dict(...)
ReturnComplete ==
    /\ pc = "try"
    /\ iter = num_examples
    /\ pc' = "idle"
    /\ result' = Some(Dataset(input_cols, output_cols))
    /\ UNCHANGED votevars
    /\ UNCHANGED cache_root
    /\ UNCHANGED keyvars
    /\ UNCHANGED auxvars
    /\ UNCHANGED <<max_api_calls, api_call_counter, recent_10_generated_examples,
                   num_examples, iter, input_cols, output_cols, prompt, response,
                   caught, raised, split_no, call_count, attempt, retry_count,
                   fatal_calls>>

\* budget reached treated as an error instead of a return
ReturnBudgetExhausted_Raises ==
    /\ pc = "try"
    /\ iter < num_examples
    /\ BudgetReached(max_api_calls, api_call_counter)
    /\ pc' = "raised"
    /\ raised' = "BudgetExceeded"
    /\ UNCHANGED votevars
    /\ UNCHANGED cache_root
    /\ UNCHANGED keyvars
    /\ UNCHANGED auxvars
    /\ UNCHANGED <<max_api_calls, api_call_counter, recent_10_generated_examples,
                   num_examples, iter, input_cols, output_cols, prompt, response,
                   caught, result, split_no, call_count, attempt, retry_count,
                   fatal_calls>>

\* top of the try block, budget reached: warn and return what there is
ReturnBudgetExhausted ==
    /\ pc = "try"
    /\ iter < num_examples
    /\ BudgetReached(max_api_calls, api_call_counter)
    /\ pc' = "idle"
    /\ result' = Some(Dataset(input_cols, output_cols))
    /\ UNCHANGED votevars
    /\ UNCHANGED cache_root
    /\ UNCHANGED keyvars
    /\ UNCHANGED auxvars
    /\ UNCHANGED <<max_api_calls, api_call_counter, recent_10_generated_examples,
                   num_examples, iter, input_cols, output_cols, prompt, response,
                   caught, raised, split_no, call_count, attempt, retry_count,
                   fatal_calls>>

\* dispatch that counts a batch once, on its first attempt only
Dispatch_CountsFirstAttemptOnly ==
    /\ pc = "try"
    /\ iter < num_examples
    /\ ~BudgetReached(max_api_calls, api_call_counter)
    /\ call_count < MaxCalls
    /\ api_call_counter' = IF attempt = 0
                           THEN CounterAfterDispatch(api_call_counter)
                           ELSE api_call_counter
    /\ \E k \in SelectedNums(recent_10_generated_examples) :
          prompt' = [template_type |-> TemplateType(k), num |-> k]
    /\ call_count' = call_count + 1
    /\ attempt' = attempt + 1
    /\ response' = <<>>
    /\ caught' = NoExc
    /\ pc' = "inflight"
    /\ UNCHANGED votevars
    /\ UNCHANGED cache_root
    /\ UNCHANGED keyvars
    /\ UNCHANGED auxvars
    /\ UNCHANGED <<max_api_calls, recent_10_generated_examples, num_examples, iter,
                   input_cols, output_cols, raised, result, split_no, retry_count,
                   fatal_calls>>

\* top of the try block, budget left: count the call, build the prompt, send it
Dispatch ==
    /\ pc = "try"
    /\ iter < num_examples
    /\ ~BudgetReached(max_api_calls, api_call_counter)
    /\ call_count < MaxCalls
    /\ api_call_counter' = CounterAfterDispatch(api_call_counter)
    /\ \E k \in SelectedNums(recent_10_generated_examples) :
          prompt' = [template_type |-> TemplateType(k), num |-> k]
    /\ call_count' = call_count + 1
    /\ attempt' = attempt + 1
    /\ response' = <<>>
    /\ caught' = NoExc
    /\ pc' = "inflight"
    /\ UNCHANGED votevars
    /\ UNCHANGED cache_root
    /\ UNCHANGED keyvars
    /\ UNCHANGED auxvars
    /\ UNCHANGED <<max_api_calls, recent_10_generated_examples, num_examples, iter,
                   input_cols, output_cols, raised, result, split_no, retry_count,
                   fatal_calls>>

\* success branch that adds one row for every choice of the response
ReceiveResponse_RowPerChoice(r) ==
    /\ pc = "inflight"
    /\ response' = r
    /\ LET ex == extract_response(r) IN
       IF ex.exc = NoExc
       THEN /\ input_cols' = input_cols \o [j \in DOMAIN r |-> ex.input]
            /\ output_cols' = output_cols \o [j \in DOMAIN r |-> ex.output]
            /\ recent_10_generated_examples' =
                  WindowAfter(recent_10_generated_examples,
                              [input |-> ex.input, output |-> ex.output])
            /\ iter' = iter + 1
            /\ attempt' = 0
            /\ pc' = "try"
            /\ UNCHANGED <<api_call_counter, caught, raised, retry_count>>
       ELSE IF ex.exc \in OPENAI_ERRORS
       THEN /\ api_call_counter' = handle_openai_error(ex.exc, api_call_counter)
            /\ caught' = ex.exc
            /\ retry_count' = retry_count + 1
            /\ pc' = "try"
            /\ UNCHANGED <<input_cols, output_cols, recent_10_generated_examples,
                           iter, attempt, raised>>
       ELSE /\ raised' = ex.exc
            /\ pc' = "raised"
            /\ UNCHANGED <<api_call_counter, input_cols, output_cols,
                           recent_10_generated_examples, iter, attempt, caught,
                           retry_count>>
    /\ UNCHANGED votevars
    /\ UNCHANGED cache_root
    /\ UNCHANGED keyvars
    /\ UNCHANGED auxvars
    /\ UNCHANGED <<max_api_calls, num_examples, prompt, result, split_no,
                   call_count, fatal_calls>>

\* success branch that puts the new example in front of the earlier ones
ReceiveResponse_InsertsAtFront(r) ==
    /\ pc = "inflight"
    /\ response' = r
    /\ LET ex == extract_response(r) IN
       IF ex.exc = NoExc
       THEN /\ input_cols' = <<ex.input>> \o input_cols
            /\ output_cols' = <<ex.output>> \o output_cols
            /\ recent_10_generated_examples' =
                  WindowAfter(recent_10_generated_examples,
                              [input |-> ex.input, output |-> ex.output])
            /\ iter' = iter + 1
            /\ attempt' = 0
            /\ pc' = "try"
            /\ UNCHANGED <<api_call_counter, caught, raised, retry_count>>
       ELSE IF ex.exc \in OPENAI_ERRORS
       THEN /\ api_call_counter' = handle_openai_error(ex.exc, api_call_counter)
            /\ caught' = ex.exc
            /\ retry_count' = retry_count + 1
            /\ pc' = "try"
            /\ UNCHANGED <<input_cols, output_cols, recent_10_generated_examples,
                           iter, attempt, raised>>
       ELSE /\ raised' = ex.exc
            /\ pc' = "raised"
            /\ UNCHANGED <<api_call_counter, input_cols, output_cols,
                           recent_10_generated_examples, iter, attempt, caught,
                           retry_count>>
    /\ UNCHANGED votevars
    /\ UNCHANGED cache_root
    /\ UNCHANGED keyvars
    /\ UNCHANGED auxvars
    /\ UNCHANGED <<max_api_calls, num_examples, prompt, result, split_no,
                   call_count, fatal_calls>>

\* the call returns a response: extract, append, update the window, break;
\* an exception of extract_response lands in the except clause
ReceiveResponse(r) ==
    /\ pc = "inflight"
    /\ response' = r
    /\ LET ex == extract_response(r) IN
       IF ex.exc = NoExc
       THEN /\ input_cols' = Append(input_cols, ex.input)
            /\ output_cols' = Append(output_cols, ex.output)
            /\ recent_10_generated_examples' =
                  WindowAfter(recent_10_generated_examples,
                              [input |-> ex.input, output |-> ex.output])
            /\ iter' = iter + 1
            /\ attempt' = 0
            /\ pc' = "try"
            /\ UNCHANGED <<api_call_counter, caught, raised, retry_count>>
       ELSE IF ex.exc \in OPENAI_ERRORS
       THEN /\ api_call_counter' = handle_openai_error(ex.exc, api_call_counter)
            /\ caught' = ex.exc
            /\ retry_count' = retry_count + 1
            /\ pc' = "try"
            /\ UNCHANGED <<input_cols, output_cols, recent_10_generated_examples,
                           iter, attempt, raised>>
       ELSE /\ raised' = ex.exc
            /\ pc' = "raised"
            /\ UNCHANGED <<api_call_counter, input_cols, output_cols,
                           recent_10_generated_examples, iter, attempt, caught,
                           retry_count>>
    /\ UNCHANGED votevars
    /\ UNCHANGED cache_root
    /\ UNCHANGED keyvars
    /\ UNCHANGED auxvars
    /\ UNCHANGED <<max_api_calls, num_examples, prompt, result, split_no,
                   call_count, fatal_calls>>

\* a bare except: every exception of the call is handled and retried
ApiError_RetriesAll(e) ==
    /\ pc = "inflight"
    /\ api_call_counter' = handle_openai_error(e, api_call_counter)
    /\ caught' = e
    /\ retry_count' = retry_count + 1
    /\ fatal_calls' = IF e \in OPENAI_ERRORS THEN fatal_calls ELSE fatal_calls + 1
    /\ pc' = "try"
    /\ UNCHANGED votevars
    /\ UNCHANGED cache_root
    /\ UNCHANGED keyvars
    /\ UNCHANGED auxvars
    /\ UNCHANGED <<max_api_calls, recent_10_generated_examples, num_examples, iter,
                   input_cols, output_cols, prompt, response, result, split_no,
                   call_count, attempt, raised>>

\* the call raises e: caught and retried when e is one of OPENAI_ERRORS,
\* otherwise it leaves generate_dataset_split
ApiError(e) ==
    /\ pc = "inflight"
    /\ IF e \in OPENAI_ERRORS
       THEN /\ api_call_counter' = handle_openai_error(e, api_call_counter)
            /\ caught' = e
            /\ retry_count' = retry_count + 1
            /\ pc' = "try"
            /\ UNCHANGED <<raised, fatal_calls>>
       ELSE /\ raised' = e
            /\ fatal_calls' = fatal_calls + 1
            /\ pc' = "raised"
            /\ UNCHANGED <<api_call_counter, caught, retry_count>>
    /\ UNCHANGED votevars
    /\ UNCHANGED cache_root
    /\ UNCHANGED keyvars
    /\ UNCHANGED auxvars
    /\ UNCHANGED <<max_api_calls, recent_10_generated_examples, num_examples, iter,
                   input_cols, output_cols, prompt, response, result, split_no,
                   call_count, attempt>>

Next ==
    \/ \E n \in 0..MaxNumExamples : GenerateDatasetSplit(n)
    \/ ReturnComplete
    \/ ReturnBudgetExhausted
    \/ Dispatch
    \/ \E r \in Responses : ReceiveResponse(r)
    \/ \E e \in ClientErrors : ApiError(e)

Spec == Init /\ [][Next]_vars

\* ------------------------------------------------------------- reconciler
\* An insertion-ordered dict is a sequence of entries in insertion order:
\* input_output_map is a sequence of [input, counter], a Counter a sequence of
\* [output, count].
VoteInputs == {<<"1">>, <<"2">>}
VoteOutputs == {<<"a">>, <<"b">>, <<"c">>}

\* Example(input_col, output_col)
Example(i, o) == [input_col |-> i, output_col |-> o]
Examples == {Example(i, o) : i \in VoteInputs, o \in VoteOutputs}

\* the generated_examples lists handed to the reconciler
ExampleLists == UNION {[1..n -> Examples] : n \in 0..MaxRaw}

\* counting that records an output once and never increments it
CounterAdd_NoIncrement(counter, o) ==
    IF \E j \in DOMAIN counter : counter[j].output = o
    THEN counter
    ELSE Append(counter, [output |-> o, count |-> 1])

\* counter[output] += 1
CounterAdd(counter, o) ==
    IF \E j \in DOMAIN counter : counter[j].output = o
    THEN [j \in DOMAIN counter |->
            IF counter[j].output = o
            THEN [output |-> o, count |-> counter[j].count + 1]
            ELSE counter[j]]
    ELSE Append(counter, [output |-> o, count |-> 1])

\* map that puts a new input in front of the inputs it already holds
MapAdd_NewKeyFirst(map, example) ==
    IF \E j \in DOMAIN map : map[j].input = example.input_col
    THEN [j \in DOMAIN map |->
            IF map[j].input = example.input_col
            THEN [input |-> map[j].input,
                  counter |-> CounterAdd(map[j].counter, example.output_col)]
            ELSE map[j]]
    ELSE <<[input |-> example.input_col,
            counter |-> CounterAdd(<<>>, example.output_col)]>> \o map

\* input_output_map[example.input_col][example.output_col] += 1
MapAdd(map, example) ==
    IF \E j \in DOMAIN map : map[j].input = example.input_col
    THEN [j \in DOMAIN map |->
            IF map[j].input = example.input_col
            THEN [input |-> map[j].input,
                  counter |-> CounterAdd(map[j].counter, example.output_col)]
            ELSE map[j]]
    ELSE Append(map, [input |-> example.input_col,
                      counter |-> CounterAdd(<<>>, example.output_col)])

\* construct_input_output_map: the map of a whole list, built left to right
RECURSIVE InputOutputMapOf(_)
InputOutputMapOf(examples) ==
    IF examples = <<>> THEN <<>>
    ELSE MapAdd(InputOutputMapOf(SubSeq(examples, 1, Len(examples) - 1)),
                examples[Len(examples)])

\* vote that takes the output seen first, whatever its count
MostFrequent_FirstSeen(counter) == counter[1].output

\* vote that takes, among the outputs of highest count, the one seen last
MostFrequent_LastSeen(counter) ==
    LET best == CHOOSE j \in DOMAIN counter :
                   /\ \A k \in DOMAIN counter : counter[k].count <= counter[j].count
                   /\ \A k \in (j + 1)..Len(counter) : counter[k].count < counter[j].count
    IN counter[best].output

\* the output with the highest count, the one seen first among equals
MostFrequent(counter) ==
    LET best == CHOOSE j \in DOMAIN counter :
                   /\ \A k \in DOMAIN counter : counter[k].count <= counter[j].count
                   /\ \A k \in 1..(j - 1) : counter[k].count < counter[j].count
    IN counter[best].output

\* apply_multi_vote_to_construct_generated_dataset: one row per entry of the
\* map, in the map's order
MultiVote(map) ==
    Dataset([j \in DOMAIN map |-> map[j].input],
            [j \in DOMAIN map |-> MostFrequent(map[j].counter)])

\* a list of generated examples is handed to the reconciler
VoteInit ==
    /\ generated_examples \in ExampleLists
    /\ input_output_map = <<>>
    /\ generated_dataset = None
    /\ vote_pc = "examples"
    /\ KeyIdle
    /\ AuxIdle
    /\ cache_root = EmptyCacheRoot
    /\ max_api_calls = None
    /\ api_call_counter = 0
    /\ recent_10_generated_examples = <<>>
    /\ pc = "idle"
    /\ num_examples = 0
    /\ iter = 0
    /\ input_cols = <<>>
    /\ output_cols = <<>>
    /\ prompt = NoPrompt
    /\ response = <<>>
    /\ caught = NoExc
    /\ raised = NoExc
    /\ result = None
    /\ split_no = 0
    /\ call_count = 0
    /\ attempt = 0
    /\ retry_count = 0
    /\ fatal_calls = 0

\* construct_input_output_map()
ConstructInputOutputMap ==
    /\ vote_pc = "examples"
    /\ input_output_map' = InputOutputMapOf(generated_examples)
    /\ vote_pc' = "mapped"
    /\ UNCHANGED <<generated_examples, generated_dataset>>
    /\ UNCHANGED genvars
    /\ UNCHANGED keyvars
    /\ UNCHANGED auxvars

\* vote that fails on an empty map instead of giving the empty dataset
ApplyMultiVote_FailsOnEmpty ==
    /\ vote_pc = "mapped"
    /\ IF input_output_map = <<>>
       THEN /\ generated_dataset' = None
            /\ vote_pc' = "error"
       ELSE /\ generated_dataset' = Some(MultiVote(input_output_map))
            /\ vote_pc' = "voted"
    /\ UNCHANGED <<generated_examples, input_output_map>>
    /\ UNCHANGED genvars
    /\ UNCHANGED keyvars
    /\ UNCHANGED auxvars

\* apply_multi_vote_to_construct_generated_dataset()
ApplyMultiVote ==
    /\ vote_pc = "mapped"
    /\ generated_dataset' = Some(MultiVote(input_output_map))
    /\ vote_pc' = "voted"
    /\ UNCHANGED <<generated_examples, input_output_map>>
    /\ UNCHANGED genvars
    /\ UNCHANGED keyvars
    /\ UNCHANGED auxvars

\* convert_generated_examples_to_generated_dataset() with
\* filter_duplicated_examples: both steps in one call
ConvertGeneratedExamples ==
    /\ vote_pc = "examples"
    /\ input_output_map' = InputOutputMapOf(generated_examples)
    /\ generated_dataset' = Some(MultiVote(InputOutputMapOf(generated_examples)))
    /\ vote_pc' = "voted"
    /\ UNCHANGED generated_examples
    /\ UNCHANGED genvars
    /\ UNCHANGED keyvars
    /\ UNCHANGED auxvars

VoteNext ==
    \/ ConstructInputOutputMap
    \/ ApplyMultiVote
    \/ ConvertGeneratedExamples

VoteSpec == VoteInit /\ [][VoteNext]_vars

\* ------------------------------------------- termination under a budget
\* a generator constructed with a positive budget
LiveInit ==
    /\ Init
    /\ max_api_calls # None
    /\ max_api_calls[1] > 0

\* the interpreter runs the next step of a running call: the loop is
\* sequential and every call of the client comes back or raises
LiveSpec == LiveInit /\ [][Next]_vars /\ WF_vars(Next)

\* ------------------------------------------------- __init__: the API key
\* the arguments and the environment of one constructor call
KeyInit ==
    /\ VoteIdle
    /\ AuxIdle
    /\ api_key_arg \in OptionalKeys
    /\ environ_key \in OptionalKeys
    /\ api_key = None
    /\ ctor_exc = NoExc
    /\ key_pc = "args"
    /\ cache_root = EmptyCacheRoot
    /\ max_api_calls = None
    /\ api_call_counter = 0
    /\ recent_10_generated_examples = <<>>
    /\ pc = "idle"
    /\ num_examples = 0
    /\ iter = 0
    /\ input_cols = <<>>
    /\ output_cols = <<>>
    /\ prompt = NoPrompt
    /\ response = <<>>
    /\ caught = NoExc
    /\ raised = NoExc
    /\ result = None
    /\ split_no = 0
    /\ call_count = 0
    /\ attempt = 0
    /\ retry_count = 0
    /\ fatal_calls = 0

\* self.api_key = api_key if api_key else os.environ["OPENAI_API_KEY"],
\* then the assertion on self.api_key
ResolveApiKey ==
    /\ key_pc = "args"
    /\ IF Truthy(api_key_arg)
       THEN /\ api_key' = api_key_arg
            /\ ctor_exc' = NoExc
            /\ key_pc' = "constructed"
       ELSE IF environ_key = None
       THEN /\ api_key' = None
            /\ ctor_exc' = "KeyError"
            /\ key_pc' = "failed"
       ELSE IF environ_key[1] = <<>>
       THEN /\ api_key' = environ_key
            /\ ctor_exc' = "AssertionError"
            /\ key_pc' = "failed"
       ELSE /\ api_key' = environ_key
            /\ ctor_exc' = NoExc
            /\ key_pc' = "constructed"
    /\ UNCHANGED <<api_key_arg, environ_key>>
    /\ UNCHANGED genvars
    /\ UNCHANGED votevars
    /\ UNCHANGED auxvars

KeyNext == ResolveApiKey

KeySpec == KeyInit /\ [][KeyNext]_vars

\* ------------------------------------- the window past its capacity
\* responses with one choice whose content extract_response accepts
ParseableResponses == {<<MOCK_EXAMPLE>>, <<PADDED_EXAMPLE>>}

\* a generator without budget inside a generate_dataset_split that asks for
\* MaxParsed examples
WindowInit ==
    /\ VoteIdle
    /\ KeyIdle
    /\ AuxIdle
    /\ cache_root = EmptyCacheRoot
    /\ max_api_calls = None
    /\ api_call_counter = 0
    /\ recent_10_generated_examples = <<>>
    /\ pc = "try"
    /\ num_examples = MaxParsed
    /\ iter = 0
    /\ input_cols = <<>>
    /\ output_cols = <<>>
    /\ prompt = NoPrompt
    /\ response = <<>>
    /\ caught = NoExc
    /\ raised = NoExc
    /\ result = None
    /\ split_no = 1
    /\ call_count = 0
    /\ attempt = 0
    /\ retry_count = 0
    /\ fatal_calls = 0

\* one iteration of the for loop whose call succeeds at once: the counter is
\* incremented, the prompt built, the response extracted, the example
\* appended to the columns and to the window
AppendParsedExample(r) ==
    /\ pc = "try"
    /\ iter < num_examples
    /\ api_call_counter' = CounterAfterDispatch(api_call_counter)
    /\ call_count' = call_count + 1
    /\ \E k \in SelectedNums(recent_10_generated_examples) :
          prompt' = [template_type |-> TemplateType(k), num |-> k]
    /\ response' = r
    /\ LET ex == extract_response(r) IN
       /\ input_cols' = Append(input_cols, ex.input)
       /\ output_cols' = Append(output_cols, ex.output)
       /\ recent_10_generated_examples' =
             WindowAfter(recent_10_generated_examples,
                         [input |-> ex.input, output |-> ex.output])
    /\ iter' = iter + 1
    /\ UNCHANGED <<max_api_calls, pc, num_examples, caught, raised, result,
                   split_no, attempt, retry_count, fatal_calls, cache_root>>
    /\ UNCHANGED votevars
    /\ UNCHANGED keyvars
    /\ UNCHANGED auxvars

WindowNext == \E r \in ParseableResponses : AppendParsedExample(r)

WindowSpec == WindowInit /\ [][WindowNext]_vars

\* ------------------------------------------------ extract_response alone
\* key names a completion may use
KeyNames == {"input", "output", "Input", "OUTPUT", "input_text", "label"}

\* field values: strings of blanks and digits up to MaxFieldLen, "" included
FieldStrings == UNION {[1..n -> {WS, "1"}] : n \in 0..MaxFieldLen}

\* completions of every key set and field values, and one that is not JSON
ParserContents ==
    {Content(TRUE, ks, inp, out) :
        ks \in SUBSET KeyNames, inp \in FieldStrings, out \in FieldStrings}
    \cup {MOCK_INVALID_JSON}

\* responses carrying one choice
ParserResponses == {<<c>> : c \in ParserContents}

\* a generator without budget inside a generate_dataset_split that asks for
\* one example
ParseInit ==
    /\ VoteIdle
    /\ KeyIdle
    /\ AuxIdle
    /\ cache_root = EmptyCacheRoot
    /\ max_api_calls = None
    /\ api_call_counter = 0
    /\ recent_10_generated_examples = <<>>
    /\ pc = "try"
    /\ num_examples = 1
    /\ iter = 0
    /\ input_cols = <<>>
    /\ output_cols = <<>>
    /\ prompt = NoPrompt
    /\ response = <<>>
    /\ caught = NoExc
    /\ raised = NoExc
    /\ result = None
    /\ split_no = 1
    /\ call_count = 0
    /\ attempt = 0
    /\ retry_count = 0
    /\ fatal_calls = 0

ParseNext ==
    \/ Dispatch
    \/ \E r \in ParserResponses : ReceiveResponse(r)
    \/ ReturnComplete

ParseSpec == ParseInit /\ [][ParseNext]_vars

\* ------------------------------------------------- generate_prompt alone
\* few_shot_example_string arguments: None, "", "N/A" and a real seed
Seeds == {None, Some(""), Some("N/A"), Some("Q: 1 A: 2")}

\* "few_shot_example_string is not None and != 'N/A' and != ''"
SeedIsValid(seed) == seed # None /\ seed[1] # "N/A" /\ seed[1] # ""

\* one line of text of the example string
TextLine(t) == [kind |-> "text", text |-> t, input |-> <<>>, output |-> <<>>]

\* the lines 'input="..."' and 'output="..."' written for a window example
ExampleLines(e) ==
    [kind |-> "example", text |-> "", input |-> e.input, output |-> e.output]

\* windows handed to generate_prompt: up to MaxWindow parsed examples
Windows ==
    UNION {[1..n -> {[input |-> <<"6">>, output |-> <<"f">>],
                     [input |-> <<"1">>, output |-> <<"a">>]}] : n \in 0..MaxWindow}

\* random.sample(window, k) for every k of random.randint(1, len(window)):
\* k different positions of the window in any order; none for an empty window
Samples(window) ==
    IF Len(window) = 0 THEN {<<>>}
    ELSE {sample \in UNION {[1..k -> DOMAIN window] : k \in 1..Len(window)} :
             \A a, b \in DOMAIN sample : a # b => sample[a] # sample[b]}

\* example string that repeats the seed after every example up to the index
RandomExampleString_SeedUpToIndex(window, sample, user_examples_insert_index, seed) ==
    IF Len(window) = 0
    THEN IF SeedIsValid(seed) THEN <<TextLine(seed[1])>> ELSE <<TextLine("N/A")>>
    ELSE LET build[j \in 0..Len(sample)] ==
                 IF j = 0 THEN <<>>
                 ELSE LET with_example ==
                              Append(build[j - 1], ExampleLines(window[sample[j]]))
                      IN IF j - 1 <= user_examples_insert_index /\ SeedIsValid(seed)
                         THEN Append(with_example, TextLine(seed[1]))
                         ELSE with_example
         IN build[Len(sample)]

\* random_example_string as generate_prompt builds it
RandomExampleString(window, sample, user_examples_insert_index, seed) ==
    IF Len(window) = 0
    THEN IF SeedIsValid(seed) THEN <<TextLine(seed[1])>> ELSE <<TextLine("N/A")>>
    ELSE LET build[j \in 0..Len(sample)] ==
                 IF j = 0 THEN <<>>
                 ELSE LET with_example ==
                              Append(build[j - 1], ExampleLines(window[sample[j]]))
                      IN IF j - 1 = user_examples_insert_index /\ SeedIsValid(seed)
                         THEN Append(with_example, TextLine(seed[1]))
                         ELSE with_example
         IN build[Len(sample)]

\* a constructed generator that has not been asked for a split
GeneratorIdle ==
    /\ cache_root = EmptyCacheRoot
    /\ max_api_calls = None
    /\ api_call_counter = 0
    /\ recent_10_generated_examples = <<>>
    /\ pc = "idle"
    /\ num_examples = 0
    /\ iter = 0
    /\ input_cols = <<>>
    /\ output_cols = <<>>
    /\ prompt = NoPrompt
    /\ response = <<>>
    /\ caught = NoExc
    /\ raised = NoExc
    /\ result = None
    /\ split_no = 0
    /\ call_count = 0
    /\ attempt = 0
    /\ retry_count = 0
    /\ fatal_calls = 0

\* a generator holding some window, and the seed of the prompt specification
PromptInit ==
    /\ VoteIdle
    /\ KeyIdle
    /\ TfIdle
    /\ MineIdle
    /\ DemoIdle
    /\ few_shot_example_string \in Seeds
    /\ random_example_string = <<>>
    /\ prompt_pc = "args"
    /\ recent_10_generated_examples \in Windows
    /\ cache_root = EmptyCacheRoot
    /\ max_api_calls = None
    /\ api_call_counter = 0
    /\ pc = "idle"
    /\ num_examples = 0
    /\ iter = 0
    /\ input_cols = <<>>
    /\ output_cols = <<>>
    /\ prompt = NoPrompt
    /\ response = <<>>
    /\ caught = NoExc
    /\ raised = NoExc
    /\ result = None
    /\ split_no = 0
    /\ call_count = 0
    /\ attempt = 0
    /\ retry_count = 0
    /\ fatal_calls = 0

\* generate_prompt(instruction, few_shot_example_string)
GeneratePrompt ==
    /\ prompt_pc = "args"
    /\ \E sample \in Samples(recent_10_generated_examples) :
       \E user_examples_insert_index \in
              IF Len(sample) = 0 THEN {0} ELSE 0..(Len(sample) - 1) :
          /\ random_example_string' =
                RandomExampleString(recent_10_generated_examples, sample,
                                    user_examples_insert_index,
                                    few_shot_example_string)
          /\ prompt' = [template_type |-> TemplateType(Len(sample)),
                        num |-> Len(sample)]
    /\ prompt_pc' = "returned"
    /\ UNCHANGED few_shot_example_string
    /\ UNCHANGED <<max_api_calls, api_call_counter, recent_10_generated_examples,
                   pc, num_examples, iter, input_cols, output_cols, response,
                   caught, raised, result, split_no, call_count, attempt,
                   retry_count, fatal_calls, cache_root>>
    /\ UNCHANGED <<votevars, keyvars, tfvars, minevars, demovars>>

PromptNext == GeneratePrompt

PromptSpec == PromptInit /\ [][PromptNext]_vars

\* ------------------------------------------- dataset transformer
\* what find_and_parse_json makes of the responses: every period-th response
\* is of the given kind ("error": it raises, "none": it returns None), the
\* others are parsed
ParseOutcomes ==
    {[period |-> 0, kind |-> "ok"],
     [period |-> 3, kind |-> "error"],
     [period |-> 3, kind |-> "none"]}

\* outcome of find_and_parse_json for the response to prompt q
OutcomeOf(q) ==
    IF parse_outcome.period > 0 /\ q % parse_outcome.period = 0
    THEN parse_outcome.kind
    ELSE "ok"

\* find_and_parse_json returns the pair of the response to prompt q
IsParsed(q) == OutcomeOf(q) = "ok"

\* lists handed to make_dataset_from_samples: entries are None or a string
SampleLists ==
    UNION {[1..n -> {None, Some(1), Some(2)}] : n \in 0..MaxSamples}

\* make_dataset_from_samples(inputs, outputs): the exception it raises and
\* the train split it returns
MakeDatasetFromSamples(ins, outs) ==
    IF Len(ins) < 0 \/ Len(ins) # Len(outs)
    THEN [exc |-> "ValueError", train |-> None]
    ELSE LET BothPresent(j) == ins[j] # None /\ outs[j] # None
             kept == SelectSeq([j \in DOMAIN ins |-> j], BothPresent)
         IN [exc |-> NoExc,
             train |-> Some(Dataset([r \in DOMAIN kept |-> ins[kept[r]]],
                                    [r \in DOMAIN kept |-> outs[kept[r]]]))]

\* transform_data after its prompts are built, before the super-batch loop
TfInit ==
    /\ VoteIdle
    /\ KeyIdle
    /\ GeneratorIdle
    /\ PromptIdle
    /\ MineIdle
    /\ DemoIdle
    /\ transform_prompts \in 0..MaxPrompts
    /\ parse_outcome \in ParseOutcomes
    /\ batch_indices = 0
    /\ responses = None
    /\ inputs = <<>>
    /\ outputs = <<>>
    /\ curr_failed_transforms = 0
    /\ dispatched = <<>>
    /\ outstanding = 0
    /\ tf_exc = NoExc
    /\ dataset_dict = None
    /\ tf_pc = "loop"

\* super-batch slice that is one prompt longer than the step of the loop
DispatchSuperBatch_OnePromptMore ==
    /\ tf_pc = "loop"
    /\ batch_indices < transform_prompts
    /\ LET lo == batch_indices + 1
           hi == IF batch_indices + SuperBatchSize + 1 < transform_prompts
                 THEN batch_indices + SuperBatchSize + 1
                 ELSE transform_prompts
       IN /\ dispatched' = Append(dispatched, <<lo, hi>>)
          /\ outstanding' = hi - lo + 1
    /\ tf_pc' = "awaiting"
    /\ UNCHANGED <<transform_prompts, parse_outcome, batch_indices, responses,
                   inputs, outputs, curr_failed_transforms, tf_exc, dataset_dict>>
    /\ UNCHANGED <<genvars, votevars, keyvars, promptvars, minevars, demovars>>

\* the for loop takes the next slice of at most 100 prompts and hands it to
\* generate_batch_completion
DispatchSuperBatch ==
    /\ tf_pc = "loop"
    /\ batch_indices < transform_prompts
    /\ LET lo == batch_indices + 1
           hi == IF batch_indices + SuperBatchSize < transform_prompts
                 THEN batch_indices + SuperBatchSize
                 ELSE transform_prompts
       IN /\ dispatched' = Append(dispatched, <<lo, hi>>)
          /\ outstanding' = hi - lo + 1
    /\ tf_pc' = "awaiting"
    /\ UNCHANGED <<transform_prompts, parse_outcome, batch_indices, responses,
                   inputs, outputs, curr_failed_transforms, tf_exc, dataset_dict>>
    /\ UNCHANGED <<genvars, votevars, keyvars, promptvars, minevars, demovars>>

\* run_until_complete returns the responses of the super-batch
GatherResponses ==
    /\ tf_pc = "awaiting"
    /\ responses' = Some(dispatched[Len(dispatched)])
    /\ outstanding' = 0
    /\ tf_pc' = "process"
    /\ UNCHANGED <<transform_prompts, parse_outcome, batch_indices, inputs,
                   outputs, curr_failed_transforms, dispatched, tf_exc,
                   dataset_dict>>
    /\ UNCHANGED <<genvars, votevars, keyvars, promptvars, minevars, demovars>>

\* the call raises e: one of API_ERRORS is handed to handle_api_error and the
\* function goes on, anything else leaves transform_data
SuperBatchError(e) ==
    /\ tf_pc = "awaiting"
    /\ outstanding' = 0
    /\ IF e \in RetryableErrors
       THEN /\ tf_pc' = "process"
            /\ UNCHANGED tf_exc
       ELSE /\ tf_pc' = "raised"
            /\ tf_exc' = e
    /\ UNCHANGED <<transform_prompts, parse_outcome, batch_indices, responses,
                   inputs, outputs, curr_failed_transforms, dispatched,
                   dataset_dict>>
    /\ UNCHANGED <<genvars, votevars, keyvars, promptvars, minevars, demovars>>

\* "for response in responses": the pairs of the parsed responses are
\* collected and added to inputs and outputs; reading responses before it
\* was ever assigned raises UnboundLocalError
ProcessResponses ==
    /\ tf_pc = "process"
    /\ IF responses = None
       THEN /\ tf_exc' = "UnboundLocalError"
            /\ tf_pc' = "raised"
            /\ UNCHANGED <<batch_indices, inputs, outputs, curr_failed_transforms,
                           dataset_dict>>
       ELSE LET lo == responses[1][1]
                hi == responses[1][2]
                parsed == SelectSeq([j \in 1..(hi - lo + 1) |-> lo + j - 1],
                                    IsParsed)
                temp == [j \in DOMAIN parsed |-> Some(parsed[j])]
                failed == Cardinality({q \in lo..hi : OutcomeOf(q) = "error"})
            IN IF curr_failed_transforms + failed > MaxAllowedFailedTransforms
               THEN /\ dataset_dict' = Some(Dataset(<<>>, <<>>))
                    /\ curr_failed_transforms' = MaxAllowedFailedTransforms + 1
                    /\ tf_pc' = "returned"
                    /\ UNCHANGED <<batch_indices, inputs, outputs, tf_exc>>
               ELSE /\ inputs' = inputs \o temp
                    /\ outputs' = outputs \o temp
                    /\ curr_failed_transforms' = curr_failed_transforms + failed
                    /\ batch_indices' = batch_indices + SuperBatchSize
                    /\ tf_pc' = "loop"
                    /\ UNCHANGED <<tf_exc, dataset_dict>>
    /\ UNCHANGED <<transform_prompts, parse_outcome, responses, dispatched,
                   outstanding>>
    /\ UNCHANGED <<genvars, votevars, keyvars, promptvars, minevars, demovars>>

\* the loop is over: transform_data calls make_dataset_from_samples
LoopEnds ==
    /\ tf_pc = "loop"
    /\ batch_indices >= transform_prompts
    /\ tf_pc' = "samples"
    /\ UNCHANGED <<transform_prompts, parse_outcome, batch_indices, responses,
                   inputs, outputs, curr_failed_transforms, dispatched,
                   outstanding, tf_exc, dataset_dict>>
    /\ UNCHANGED <<genvars, votevars, keyvars, promptvars, minevars, demovars>>

\* make_dataset_from_samples(inputs, outputs) runs
MakeDataset ==
    /\ tf_pc = "samples"
    /\ LET made == MakeDatasetFromSamples(inputs, outputs) IN
       /\ tf_exc' = made.exc
       /\ dataset_dict' = made.train
       /\ tf_pc' = IF made.exc = NoExc THEN "returned" ELSE "raised"
    /\ UNCHANGED <<transform_prompts, parse_outcome, batch_indices, responses,
                   inputs, outputs, curr_failed_transforms, dispatched,
                   outstanding>>
    /\ UNCHANGED <<genvars, votevars, keyvars, promptvars, minevars, demovars>>

TfNext ==
    \/ DispatchSuperBatch
    \/ GatherResponses
    \/ \E e \in ClientErrors : SuperBatchError(e)
    \/ ProcessResponses
    \/ LoopEnds
    \/ MakeDataset

TfSpec == TfInit /\ [][TfNext]_vars

\* make_dataset_from_samples called on lists of its caller's choice
SamplesInit ==
    /\ VoteIdle
    /\ KeyIdle
    /\ GeneratorIdle
    /\ PromptIdle
    /\ MineIdle
    /\ DemoIdle
    /\ transform_prompts = 0
    /\ parse_outcome = <<>>
    /\ batch_indices = 0
    /\ responses = None
    /\ inputs \in SampleLists
    /\ outputs \in SampleLists
    /\ curr_failed_transforms = 0
    /\ dispatched = <<>>
    /\ outstanding = 0
    /\ tf_exc = NoExc
    /\ dataset_dict = None
    /\ tf_pc = "samples"

SamplesNext == MakeDataset

SamplesSpec == SamplesInit /\ [][SamplesNext]_vars

\* ------------------------------------------- classification generator
\* JSON values: a string, an integer or null
StrValue(t) == [type |-> "str", v |-> t]
IntValue(n) == [type |-> "int", v |-> n]
NullValue == [type |-> "null", v |-> 0]

\* str.lower() on the letters the keys are written with
LowerChar(ch) ==
    CASE ch = "C" -> "c" [] ch = "O" -> "o" [] ch = "M" -> "m"
      [] ch = "E" -> "e" [] ch = "N" -> "n" [] ch = "T" -> "t"
      [] ch = "L" -> "l" [] ch = "A" -> "a" [] ch = "B" -> "b"
      [] ch = "X" -> "x" [] OTHER -> ch

Lower(t) == [j \in DOMAIN t |-> LowerChar(t[j])]

\* Python's "word in text"
Contains(text, word) ==
    \E j \in 0..(Len(text) - Len(word)) :
        SubSeq(text, j + 1, j + Len(word)) = word

COMMENT == <<"c", "o", "m", "m", "e", "n", "t">>
LABEL == <<"l", "a", "b", "e", "l">>

\* keys of the decoded object: "comment", "Comment", "label", "LABEL", "text"
MiningKeys ==
    {COMMENT, <<"C", "o", "m", "m", "e", "n", "t">>, LABEL,
     <<"L", "A", "B", "E", "L">>, <<"t", "e", "x", "t">>}

\* values of the decoded object
MiningValues ==
    {StrValue(<<>>), StrValue(<<"a">>), StrValue(<<"1">>), NullValue}
    \cup {IntValue(n) : n \in (0 - 1)..MaxLabel}

\* decoded objects: up to two entries with different keys, in their order
MiningDicts ==
    {<<>>}
    \cup {<<e>> : e \in MiningKeys \X MiningValues}
    \cup {d \in (MiningKeys \X MiningValues) \X (MiningKeys \X MiningValues) :
              d[1][1] # d[2][1]}

\* responses: no choice at all, a first choice that is not JSON, or one that
\* decodes to an object
MiningResponses ==
    {[choices |-> 0, wellformed |-> FALSE, dict |-> <<>>],
     [choices |-> 1, wellformed |-> FALSE, dict |-> <<>>]}
    \cup {[choices |-> 1, wellformed |-> TRUE, dict |-> d] : d \in MiningDicts}

\* int(value): the number, or the exception int() raises
IntOf(value) ==
    CASE value.type = "int" -> [exc |-> NoExc, v |-> value.v]
      [] value.type = "null" -> [exc |-> "TypeError", v |-> 0]
      [] OTHER ->
           IF value.v = <<"0">> THEN [exc |-> NoExc, v |-> 0]
           ELSE IF value.v = <<"1">> THEN [exc |-> NoExc, v |-> 1]
           ELSE [exc |-> "ValueError", v |-> 0]

\* truth value of a JSON value in an if
TruthyValue(value) ==
    CASE value.type = "int" -> value.v # 0
      [] value.type = "null" -> FALSE
      [] OTHER -> value.v # <<>>

\* the sentinel ("", -1)
MiningSentinel == <<StrValue(<<>>), 0 - 1>>

\* the exceptions response_mining catches
MiningCaught ==
    {"JSONDecodeError", "IndexError", "TypeError", "ValueError", "AttributeError"}

\* the loop over the keys: generated_example, pseudo_label and the exception
\* that ended it, after the first j entries
RECURSIVE MiningLoop(_, _)
MiningLoop(dict, j) ==
    IF j = 0
    THEN [generated_example |-> NullValue, pseudo_label |-> 0 - 1, exc |-> NoExc]
    ELSE LET before == MiningLoop(dict, j - 1)
             key == Lower(dict[j][1])
         IN IF before.exc # NoExc THEN before
            ELSE IF Contains(key, COMMENT)
            THEN [before EXCEPT !.generated_example = dict[j][2]]
            ELSE IF Contains(key, LABEL)
            THEN IF IntOf(dict[j][2]).exc # NoExc
                 THEN [before EXCEPT !.exc = IntOf(dict[j][2]).exc]
                 ELSE [before EXCEPT !.pseudo_label = IntOf(dict[j][2]).v]
            ELSE before

\* response_mining(response): the pair it returns and the exception that
\* leaves it
response_mining(resp) ==
    IF resp.choices = 0 THEN [exc |-> NoExc, value |-> MiningSentinel]
    ELSE IF ~resp.wellformed THEN [exc |-> NoExc, value |-> MiningSentinel]
    ELSE LET loop == MiningLoop(resp.dict, Len(resp.dict))
         IN IF loop.exc # NoExc
            THEN IF loop.exc \in MiningCaught
                 THEN [exc |-> NoExc, value |-> MiningSentinel]
                 ELSE [exc |-> loop.exc, value |-> MiningSentinel]
            ELSE IF TruthyValue(loop.generated_example) /\ loop.pseudo_label # 0
                 THEN [exc |-> NoExc,
                       value |-> <<loop.generated_example, loop.pseudo_label>>]
                 ELSE [exc |-> NoExc, value |-> MiningSentinel]

\* a response handed to response_mining
MiningInit ==
    /\ VoteIdle
    /\ KeyIdle
    /\ GeneratorIdle
    /\ PromptIdle
    /\ TfIdle
    /\ DemoIdle
    /\ mining_content \in {Some(r) : r \in MiningResponses}
    /\ mining_result = None
    /\ mining_pc = "call"

ResponseMining ==
    /\ mining_pc = "call"
    /\ mining_result' = Some(response_mining(mining_content[1]))
    /\ mining_pc' = "done"
    /\ UNCHANGED mining_content
    /\ UNCHANGED <<genvars, votevars, keyvars, promptvars, tfvars, demovars>>

MiningNext == ResponseMining

MiningSpec == MiningInit /\ [][MiningNext]_vars

\* ------------------------------------------------------------- demo
\* the flags of main, in the order of its stages
StageFlags ==
    <<"prompt_has_been_parsed", "dataset_has_been_retrieved",
      "model_has_been_retrieved", "dataset_has_been_generated",
      "model_has_been_trained">>

\* flags of the stages before stage k
EarlierFlags(k) == {StageFlags[j] : j \in 1..(k - 1)}

\* the condition of the if statement of stage k
StageGuard(k) ==
    /\ EarlierFlags(k) \subseteq has_been
    /\ StageFlags[k] \notin has_been

\* no status.yaml, no session running
DemoInit ==
    /\ VoteIdle
    /\ KeyIdle
    /\ GeneratorIdle
    /\ PromptIdle
    /\ TfIdle
    /\ MineIdle
    /\ status_yaml = None
    /\ status = {}
    /\ has_been = {}
    /\ demo_pc = 0
    /\ session_no = 0
    /\ answer = "none"
    /\ finished = <<>>

\* main starts and the user answers "Do you want to start from scratch?":
\* the status is the one of status.yaml after "n" when the file exists,
\* empty otherwise, and the five flags are read from it
StartSession(a) ==
    /\ demo_pc = 0
    /\ session_no < MaxSessions
    /\ session_no' = session_no + 1
    /\ answer' = a
    /\ status' = IF a = "n" /\ status_yaml # None THEN status_yaml[1] ELSE {}
    /\ has_been' = status'
    /\ finished' = IF a = "y" THEN <<>> ELSE finished
    /\ demo_pc' = 1
    /\ UNCHANGED status_yaml
    /\ UNCHANGED <<genvars, votevars, keyvars, promptvars, tfvars, minevars>>

\* stage k runs to its end: the first four stages set their flag and write
\* the status to status.yaml, the training stage does neither
RunStage(k) ==
    /\ demo_pc = k
    /\ StageGuard(k)
    /\ IF k < 5
       THEN /\ has_been' = has_been \cup {StageFlags[k]}
            /\ status' = status \cup {StageFlags[k]}
            /\ status_yaml' = Some(status')
       ELSE UNCHANGED <<has_been, status, status_yaml>>
    /\ finished' = Append(finished, k)
    /\ demo_pc' = k + 1
    /\ UNCHANGED <<session_no, answer>>
    /\ UNCHANGED <<genvars, votevars, keyvars, promptvars, tfvars, minevars>>

\* the condition of stage k is false: main goes on to the next stage
SkipStage(k) ==
    /\ demo_pc = k
    /\ ~StageGuard(k)
    /\ demo_pc' = k + 1
    /\ UNCHANGED <<status_yaml, status, has_been, session_no, answer, finished>>
    /\ UNCHANGED <<genvars, votevars, keyvars, promptvars, tfvars, minevars>>

\* the user stops the session before the stage it is at has ended
Interrupt ==
    /\ demo_pc \in 1..5
    /\ demo_pc' = 0
    /\ status' = {}
    /\ has_been' = {}
    /\ UNCHANGED <<status_yaml, session_no, answer, finished>>
    /\ UNCHANGED <<genvars, votevars, keyvars, promptvars, tfvars, minevars>>

\* main returns
EndSession ==
    /\ demo_pc = 6
    /\ demo_pc' = 0
    /\ status' = {}
    /\ has_been' = {}
    /\ UNCHANGED <<status_yaml, session_no, answer, finished>>
    /\ UNCHANGED <<genvars, votevars, keyvars, promptvars, tfvars, minevars>>

DemoNext ==
    \/ \E a \in {"y", "n"} : StartSession(a)
    \/ \E k \in 1..5 : RunStage(k)
    \/ \E k \in 1..5 : SkipStage(k)
    \/ Interrupt
    \/ EndSession

DemoSpec == DemoInit /\ [][DemoNext]_vars

\* ================================================================ claims
PositiveBudget == max_api_calls # None /\ max_api_calls[1] > 0

\* C1: with a positive max_api_calls = N, api_call_counter is at most N in
\* every reachable state of the generator, loop exit included.
C1_BudgetRespect ==
    PositiveBudget => api_call_counter <= max_api_calls[1]

\* the last call the budget allows is in flight
C1_Witness ==
    /\ pc = "inflight"
    /\ PositiveBudget
    /\ max_api_calls[1] >= 2
    /\ api_call_counter = max_api_calls[1]

\* C2: the budget is tested before every dispatch; at the top of the try
\* block with the budget used up the next step dispatches nothing and returns
\* the dataset built so far as an ordinary result, raising nothing.
C2_ExhaustionReturnsPartial ==
    [][ /\ (call_count' # call_count) =>
              ~(PositiveBudget /\ api_call_counter >= max_api_calls[1])
        /\ (pc = "try" /\ iter < num_examples /\ PositiveBudget
               /\ api_call_counter >= max_api_calls[1]) =>
              /\ pc' = "idle"
              /\ result' = Some(Dataset(input_cols, output_cols))
              /\ raised' = NoExc
              /\ call_count' = call_count
              /\ api_call_counter' = api_call_counter ]_vars

\* a partial, non-empty dataset was returned on an exhausted budget
C2_Witness ==
    /\ pc = "idle"
    /\ result # None
    /\ PositiveBudget
    /\ api_call_counter = max_api_calls[1]
    /\ Len(result[1].input_col) > 0
    /\ Len(result[1].input_col) < num_examples

C4_OneRoundTripUsesTwoUnits ==
    (/\ pc = "idle"
     /\ result # None
     /\ split_no = 1
     /\ max_api_calls = Some(2)
     /\ num_examples = 5
     /\ retry_count = 0
     /\ api_call_counter = 2) => call_count = 1

\* C5: the counter belongs to the generator: entering a split leaves it as it
\* is, and a split entered with the budget already used up dispatches nothing
\* and returns the empty dataset.
C5_BudgetSharedAcrossSplits ==
    [][ /\ (pc = "idle" /\ pc' = "try") => api_call_counter' = api_call_counter
        /\ (pc = "try" /\ split_no >= 2 /\ iter = 0 /\ attempt = 0
               /\ num_examples > 0 /\ PositiveBudget
               /\ api_call_counter >= max_api_calls[1]) =>
              /\ pc' = "idle"
              /\ result' = Some(Dataset(<<>>, <<>>))
              /\ call_count' = call_count ]_vars

\* the third split came back empty on a budget used up before it
C5_Witness ==
    /\ pc = "idle"
    /\ split_no = 3
    /\ num_examples > 0
    /\ result = Some(Dataset(<<>>, <<>>))
    /\ PositiveBudget
    /\ api_call_counter = max_api_calls[1]
    /\ call_count = max_api_calls[1]

C7_FatalPropagates ==
    /\ fatal_calls <= 1
    /\ caught \notin FatalErrors
    /\ (fatal_calls = 1) <=> (raised \in FatalErrors)
    /\ (raised # NoExc) => (pc = "raised" /\ result = None /\ raised \in FatalErrors)
    /\ (raised # NoExc /\ retry_count = 0 /\ split_no = 1 /\ Len(input_cols) = 0)
          => call_count = 1

\* the first call raised the unknown exception of the test
C7_Witness ==
    /\ pc = "raised"
    /\ raised = "UNKNOWN_GPT3_EXCEPTION"
    /\ call_count = 1
    /\ api_call_counter = 1

\* the parseable candidates of a response, in order
ParseableCandidates(r) ==
    SelectSeq(r, LAMBDA c : extract_content(c).exc = NoExc)

\* C8 (as claimed): when a response with an unparseable candidate has been
\* processed, its parseable candidates are the last examples appended.
C8_SiblingsStillAppended ==
    (/\ pc = "try"
     /\ response # <<>>
     /\ \E j \in DOMAIN response : extract_content(response[j]).exc # NoExc) =>
        LET good == ParseableCandidates(response)
            n == Len(input_cols)
        IN /\ Len(good) <= n
           /\ \A j \in 1..Len(good) :
                 /\ input_cols[n - Len(good) + j] = extract_content(good[j]).input
                 /\ output_cols[n - Len(good) + j] = extract_content(good[j]).output

\* C9 (as claimed): extract_response hands back a value for every response
\* received; no exception of the parser reaches the generation loop.
C9_ParserNeverRaises ==
    response # <<>> =>
        /\ extract_response(response).exc = NoExc
        /\ caught \notin {"JSONDecodeError", "AssertionError"}

\* occurrences of the pair (i, o) in generated_examples
PairCount(i, o) ==
    Cardinality({j \in DOMAIN generated_examples :
                    generated_examples[j] = Example(i, o)})

\* C10: after reconciliation every input of generated_examples has a row, and
\* the output of that row occurs with that input at least as often as any
\* other output does.
C10_MajorityVote ==
    vote_pc = "voted" =>
        \A j \in DOMAIN generated_examples :
            LET i == generated_examples[j].input_col
                ds == generated_dataset[1]
            IN \E r \in DOMAIN ds.input_col :
                  /\ ds.input_col[r] = i
                  /\ \A o \in VoteOutputs :
                        PairCount(i, ds.output_col[r]) >= PairCount(i, o)

\* counts {a: 1, b: 2} of input 1, the minority output seen first, give b
C10_Witness ==
    /\ vote_pc = "voted"
    /\ generated_examples = <<Example(<<"1">>, <<"a">>), Example(<<"1">>, <<"b">>),
                              Example(<<"2">>, <<"c">>), Example(<<"1">>, <<"b">>)>>
    /\ generated_dataset = Some(Dataset(<< <<"1">>, <<"2">> >>, << <<"b">>, <<"c">> >>))

\* position of the first occurrence of the pair (i, o) in generated_examples
FirstIdx(i, o) ==
    CHOOSE j \in DOMAIN generated_examples :
        /\ generated_examples[j] = Example(i, o)
        /\ \A k \in 1..(j - 1) : generated_examples[k] # Example(i, o)

\* o has the highest count among the outputs seen with input i
HasTopCount(i, o) ==
    /\ PairCount(i, o) > 0
    /\ \A q \in VoteOutputs : PairCount(i, q) <= PairCount(i, o)

\* C11: the output of a row is, among the outputs sharing the highest count
\* for the row's input, the one that occurs first in generated_examples.
C11_TieBreakFirstSeen ==
    vote_pc = "voted" =>
        LET ds == generated_dataset[1] IN
        \A r \in DOMAIN ds.input_col :
            /\ HasTopCount(ds.input_col[r], ds.output_col[r])
            /\ \A o \in VoteOutputs :
                  HasTopCount(ds.input_col[r], o) =>
                      FirstIdx(ds.input_col[r], ds.output_col[r])
                          <= FirstIdx(ds.input_col[r], o)

\* three outputs of input 1 with one occurrence each, seen in the order b, c, a
C11_Witness ==
    /\ vote_pc = "voted"
    /\ generated_examples = <<Example(<<"1">>, <<"b">>), Example(<<"1">>, <<"c">>),
                              Example(<<"1">>, <<"a">>)>>
    /\ generated_dataset = Some(Dataset(<< <<"1">> >>, << <<"b">> >>))

\* position of the first occurrence of input i in generated_examples
FirstInputIdx(i) ==
    CHOOSE j \in DOMAIN generated_examples :
        /\ generated_examples[j].input_col = i
        /\ \A k \in 1..(j - 1) : generated_examples[k].input_col # i

\* C12: the reconciled dataset has a row for every input of
\* generated_examples, no input twice, and its rows follow the first
\* appearances of their inputs in generated_examples.
C12_OneRowPerInputInOrder ==
    vote_pc = "voted" =>
        LET ds == generated_dataset[1] IN
        /\ Len(ds.input_col) = Len(ds.output_col)
        /\ {ds.input_col[r] : r \in DOMAIN ds.input_col}
              = {generated_examples[j].input_col : j \in DOMAIN generated_examples}
        /\ \A r, q \in DOMAIN ds.input_col :
              r < q => /\ ds.input_col[r] # ds.input_col[q]
                       /\ FirstInputIdx(ds.input_col[r]) < FirstInputIdx(ds.input_col[q])

\* input 2 seen before input 1, both repeated
C12_Witness ==
    /\ vote_pc = "voted"
    /\ generated_examples = <<Example(<<"2">>, <<"a">>), Example(<<"1">>, <<"a">>),
                              Example(<<"2">>, <<"b">>), Example(<<"1">>, <<"c">>)>>
    /\ generated_dataset[1].input_col = << <<"2">>, <<"1">> >>

\* C14: an empty generated_examples list gives the empty map and the empty,
\* zero-row dataset; no stage of the reconciler fails on it.
C14_EmptyListEmptyDataset ==
    generated_examples = <<>> =>
        /\ vote_pc \in {"unused", "examples", "mapped", "voted"}
        /\ vote_pc \in {"mapped", "voted"} => input_output_map = <<>>
        /\ vote_pc = "voted" => generated_dataset = Some(Dataset(<<>>, <<>>))

\* the empty list went through construct_input_output_map and the vote
C14_Witness ==
    /\ vote_pc = "voted"
    /\ generated_examples = <<>>
    /\ input_output_map = <<>>
    /\ generated_dataset # None
    /\ Len(generated_dataset[1].input_col) = 0

\* C15: after construct_input_output_map the keys of the map are the distinct
\* inputs of generated_examples, each once, and the counter of an input holds
\* each output seen with it once, with the number of its occurrences.
C15_MapCounts ==
    vote_pc \in {"mapped", "voted"} =>
        /\ {input_output_map[e].input : e \in DOMAIN input_output_map}
              = {generated_examples[j].input_col : j \in DOMAIN generated_examples}
        /\ \A e, f \in DOMAIN input_output_map :
              e # f => input_output_map[e].input # input_output_map[f].input
        /\ \A e \in DOMAIN input_output_map :
              LET i == input_output_map[e].input
                  counter == input_output_map[e].counter
              IN /\ \A c \in DOMAIN counter :
                       /\ counter[c].count = PairCount(i, counter[c].output)
                       /\ counter[c].count > 0
                 /\ \A c, d \in DOMAIN counter :
                       c # d => counter[c].output # counter[d].output
                 /\ \A o \in VoteOutputs :
                       PairCount(i, o) > 0 =>
                          \E c \in DOMAIN counter : counter[c].output = o

\* input 1 seen with a twice and b once, input 2 once
C15_Witness ==
    /\ vote_pc = "mapped"
    /\ generated_examples = <<Example(<<"1">>, <<"a">>), Example(<<"2">>, <<"c">>),
                              Example(<<"1">>, <<"b">>), Example(<<"1">>, <<"a">>)>>
    /\ input_output_map =
          <<[input |-> <<"1">>,
             counter |-> <<[output |-> <<"a">>, count |-> 2],
                           [output |-> <<"b">>, count |-> 1]>>],
            [input |-> <<"2">>,
             counter |-> <<[output |-> <<"c">>, count |-> 1]>>]>>

\* the examples generated so far by the running generate_dataset_split
RawExamples ==
    [j \in DOMAIN input_cols |-> Example(input_cols[j], output_cols[j])]

\* rows to which the artifact of split s reconciles
CachedRows(s) == Len(MultiVote(InputOutputMapOf(cache_root[s][1])).input_col)

\* the first generate_dataset_split of a fresh generator returned a dataset
FirstSplitReturned ==
    /\ split_no = 1
    /\ pc = "idle"
    /\ result # None

\* C16: when the artifact of the split already reconciles to at least the
\* target, a fresh generator returns the reconciliation of the saved list,
\* its raw examples are the saved list and it has made no API call.
C16_ResumeWithoutCalls ==
    (/\ FirstSplitReturned
     /\ cache_root[SplitOf(1)] # None
     /\ num_examples > 0
     /\ CachedRows(SplitOf(1)) >= num_examples)
    => /\ call_count = 0
       /\ RawExamples = cache_root[SplitOf(1)][1]
       /\ result = Some(MultiVote(InputOutputMapOf(cache_root[SplitOf(1)][1])))

\* C17: when the artifact of the split reconciles to fewer rows than the
\* target, the saved list stays a prefix of the raw examples and, without
\* retries, calls are made for the shortfall only.
C17_ResumeAndContinue ==
    (/\ split_no = 1
     /\ pc \in {"try", "inflight", "idle"}
     /\ cache_root[SplitOf(1)] # None
     /\ CachedRows(SplitOf(1)) < num_examples)
    => /\ Len(RawExamples) >= Len(cache_root[SplitOf(1)][1])
       /\ SubSeq(RawExamples, 1, Len(cache_root[SplitOf(1)][1]))
             = cache_root[SplitOf(1)][1]
       /\ (FirstSplitReturned /\ retry_count = 0)
             => call_count <= num_examples - CachedRows(SplitOf(1))

C20_OneRowPerExample ==
    (pc = "idle" /\ result # None) =>
        /\ result[1].input_col = input_cols
        /\ result[1].output_col = output_cols
        /\ Len(input_cols) = iter
        /\ Len(output_cols) = iter

\* two equal examples were generated and both are rows of the dataset
C20_Witness ==
    /\ pc = "idle"
    /\ result # None
    /\ Len(result[1].input_col) = 2
    /\ result[1].input_col[1] = result[1].input_col[2]
    /\ result[1].output_col[1] = result[1].output_col[2]

\* C21 (as claimed): a generator whose max_api_calls is 0 or negative does
\* not exist: the constructor has failed, and no call is ever sent for it.
C21_NonPositiveRejected ==
    (max_api_calls # None /\ max_api_calls[1] <= 0) =>
        /\ pc = "assert_failed"
        /\ call_count = 0

\* C22 (as claimed): without a non-empty key in the argument or in the
\* environment the constructor fails with the AssertionError; otherwise
\* api_key is the argument when it is non-empty and the environment's value
\* when it is not.
C22_ApiKeyResolution ==
    key_pc \in {"constructed", "failed"} =>
        IF ~Truthy(api_key_arg) /\ ~Truthy(environ_key)
        THEN key_pc = "failed" /\ ctor_exc = "AssertionError"
        ELSE /\ key_pc = "constructed"
             /\ ctor_exc = NoExc
             /\ api_key = IF Truthy(api_key_arg) THEN api_key_arg ELSE environ_key

\* the last n entries of a sequence (all of them when it has fewer)
LastN(seq, n) ==
    IF Len(seq) <= n THEN seq ELSE SubSeq(seq, Len(seq) - n + 1, Len(seq))

\* the examples parsed so far, as the window records them
ParsedSoFar ==
    [j \in DOMAIN input_cols |-> [input |-> input_cols[j], output |-> output_cols[j]]]

\* C26: recent_10_generated_examples never holds more than ten examples, and
\* after k parsed examples it holds the last min(10, k) of them in the order
\* of generation.
C26_WindowIsFifoOfTen ==
    /\ Len(recent_10_generated_examples) <= WindowCap
    /\ recent_10_generated_examples = LastN(ParsedSoFar, WindowCap)

\* twelve examples parsed: the first two have left the window from the front
C26_Witness ==
    /\ Len(input_cols) = 12
    /\ Len(recent_10_generated_examples) = WindowCap
    /\ input_cols[1] # input_cols[3]
    /\ recent_10_generated_examples[1].input = input_cols[3]
    /\ recent_10_generated_examples[WindowCap].input = input_cols[12]

\* C23: when generate_dataset_split has returned a dataset, the dataset has
\* the number of rows asked for, or max_api_calls is set and api_call_counter
\* has reached it.
C23_ExitPostcondition ==
    (pc = "idle" /\ result # None) =>
        \/ Len(result[1].input_col) >= num_examples
        \/ /\ max_api_calls # None
           /\ api_call_counter >= max_api_calls[1]

\* a return for each reason: the rows asked for without a budget set, and
\* fewer rows than asked for with the budget used up
C23_Witness ==
    /\ pc = "idle"
    /\ result # None
    /\ \/ /\ max_api_calls = None
          /\ num_examples = 2
          /\ Len(result[1].input_col) = 2
       \/ /\ max_api_calls = Some(2)
          /\ api_call_counter = 2
          /\ num_examples = 3
          /\ Len(result[1].input_col) = 1

\* prompts sent by one call of generate_openai_chat_completion
PromptsPerCall == 1

\* ceil((target - rows) / responses_per_request), at most batch_size and at
\* least 1
RoundBatchSize(target, rows, responses_per_request, batch_size) ==
    LET need == (target - rows + responses_per_request - 1)
                    \div responses_per_request
        capped == IF need > batch_size THEN batch_size ELSE need
    IN IF capped < 1 THEN 1 ELSE capped

\* C24 (as claimed, for batch_size = 2 and responses_per_request = 3): the
\* number of prompts of every dispatched call is the round's batch size for
\* the rows still missing.
C24_BatchSizeOfRound ==
    pc = "inflight" =>
        PromptsPerCall = RoundBatchSize(num_examples, Len(input_cols), 3, 2)

C27_WindowPerSplit ==
    (pc = "try" /\ iter = 0 /\ attempt = 0) =>
        \A j \in DOMAIN recent_10_generated_examples :
            /\ cache_root[SplitOf(split_no)] # None
            /\ \E q \in DOMAIN cache_root[SplitOf(split_no)][1] :
                  cache_root[SplitOf(split_no)][1][q]
                     = Example(recent_10_generated_examples[j].input,
                               recent_10_generated_examples[j].output)

\* C28 (as claimed): the dataset returned by generate_dataset_split is the
\* reconciliation of all the examples generated for the split.
C28_DatasetIsReconciliation ==
    (pc = "idle" /\ result # None) =>
        result = Some(MultiVote(InputOutputMapOf(RawExamples)))

\* a is a prefix of b
IsPrefix(a, b) == Len(a) <= Len(b) /\ SubSeq(b, 1, Len(a)) = a

\* C29: within one generate_dataset_split every step leaves the examples
\* generated so far in place: the old columns are prefixes of the new ones.
C29_RawExamplesAppendOnly ==
    [][split_no' = split_no =>
          /\ IsPrefix(input_cols, input_cols')
          /\ IsPrefix(output_cols, output_cols')]_vars

\* two different examples generated one after the other
C29_Witness ==
    /\ pc = "try"
    /\ Len(input_cols) = 2
    /\ input_cols[1] = <<"6">>
    /\ input_cols[2] = <<"1">>
    /\ output_cols = << <<"f">>, <<"a">> >>

\* C30: with a positive budget N a generator never sends more than N calls,
\* and every running generate_dataset_split comes to an end, by a return or
\* by an error that leaves it.
C30_RetriesCappedByBudget ==
    /\ [](PositiveBudget => call_count <= max_api_calls[1])
    /\ (PositiveBudget /\ pc \in {"try", "inflight"}) ~> (pc \in {"idle", "raised"})

\* a budget of three used up by three attempts that all failed
C30_Witness ==
    /\ max_api_calls = Some(3)
    /\ pc = "idle"
    /\ result # None
    /\ call_count = 3
    /\ retry_count = 3
    /\ Len(input_cols) = 0

\* C31 (as claimed): no example with an empty input or an empty output is
\* ever appended to the examples of the split.
C31_NoEmptyExample ==
    \A j \in DOMAIN input_cols :
        /\ input_cols[j] # <<>>
        /\ output_cols[j] # <<>>

\* key names that contain the word in some letter case
InputLike == {"input", "Input", "input_text"}
OutputLike == {"output", "OUTPUT"}

\* C32 (as claimed): a well-formed completion with non-empty values gives an
\* example when it has a key containing "input" and a key containing "output"
\* in any letter case, and a parse failure when it lacks one of them.
C32_KeysMatchedInAnyCase ==
    (/\ pc = "try"
     /\ response # <<>>
     /\ response[1].wellformed
     /\ Strip(response[1].input) # <<>>
     /\ Strip(response[1].output) # <<>>)
    => IF /\ response[1].keys \cap InputLike # {}
          /\ response[1].keys \cap OutputLike # {}
       THEN caught = NoExc /\ Len(input_cols) = 1
       ELSE caught = "AssertionError" /\ Len(input_cols) = 0

\* C33: the prompt of every call is built from k sampled window examples,
\* k = 0 for an empty window and 1 <= k <= len(window) otherwise, and its
\* template is COMPLEX for k in 0..3, MIDDLE for k in 4..7, SIMPLE for k in
\* 8..10.
C33_TemplateFollowsSampleSize ==
    [][call_count' = call_count + 1 =>
          /\ IF Len(recent_10_generated_examples) = 0
             THEN prompt'.num = 0
             ELSE /\ 1 <= prompt'.num
                  /\ prompt'.num <= Len(recent_10_generated_examples)
          /\ \/ prompt'.num \in 0..3 /\ prompt'.template_type = "COMPLEX"
             \/ prompt'.num \in 4..7 /\ prompt'.template_type = "MIDDLE"
             \/ prompt'.num \in 8..10 /\ prompt'.template_type = "SIMPLE"]_vars

\* a prompt built from eight of the ten window examples
C33_Witness ==
    /\ Len(input_cols) = 11
    /\ prompt.num = 8
    /\ prompt.template_type = "SIMPLE"

\* positions of the example string that hold a line of text
TextPositions ==
    {j \in DOMAIN random_example_string : random_example_string[j].kind = "text"}

\* C34: a valid seed is in the example string exactly once, behind one of the
\* sampled examples when the window is not empty; a seed that is None, "" or
\* "N/A" is not in it: the string is then the sampled examples alone, or the
\* line N/A for an empty window.
C34_SeedIncludedOnce ==
    prompt_pc = "returned" =>
        /\ Cardinality({j \in DOMAIN random_example_string :
                           random_example_string[j].kind = "example"}) = prompt.num
        /\ IF SeedIsValid(few_shot_example_string)
           THEN /\ Cardinality(TextPositions) = 1
                /\ \A j \in TextPositions :
                      /\ random_example_string[j].text = few_shot_example_string[1]
                      /\ Len(recent_10_generated_examples) > 0 =>
                            /\ j > 1
                            /\ random_example_string[j - 1].kind = "example"
           ELSE IF Len(recent_10_generated_examples) > 0
                THEN TextPositions = {}
                ELSE random_example_string = <<TextLine("N/A")>>

\* three sampled examples with the seed behind the second of them
C34_Witness ==
    /\ prompt_pc = "returned"
    /\ SeedIsValid(few_shot_example_string)
    /\ Len(random_example_string) = 4
    /\ random_example_string[3] = TextLine(few_shot_example_string[1])
    /\ random_example_string[4].kind = "example"

\* C35: transform_data dispatches its prompts in consecutive super-batches
\* of at most 100 prompts: the super-batches follow one another without a
\* gap or an overlap, so every prompt is in exactly one of them once the
\* loop is over; at most 100 requests are outstanding at any time; and a
\* super-batch is dispatched only when nothing is outstanding and the loop
\* has gone past the processing of all the super-batches before it.
C35_SuperBatchesInOrder ==
    /\ [](/\ \A k \in DOMAIN dispatched :
               /\ dispatched[k][1] <= dispatched[k][2]
               /\ dispatched[k][2] - dispatched[k][1] + 1 <= SuperBatchSize
               /\ dispatched[k][2] <= transform_prompts
               /\ dispatched[k][1] =
                      IF k = 1 THEN 1 ELSE dispatched[k - 1][2] + 1
          /\ outstanding <= SuperBatchSize
          /\ (tf_pc = "samples" \/
               (tf_pc = "returned" /\
                curr_failed_transforms <= MaxAllowedFailedTransforms))
              => IF transform_prompts = 0
                 THEN dispatched = <<>>
                 ELSE /\ dispatched # <<>>
                      /\ dispatched[Len(dispatched)][2] = transform_prompts)
    /\ [][Len(dispatched') > Len(dispatched)
             => /\ tf_pc = "loop"
                /\ outstanding = 0
                /\ batch_indices = SuperBatchSize * Len(dispatched)
                /\ Len(dispatched') = Len(dispatched) + 1]_vars

\* transform_data has returned the dataset of more than 200 prompts, sent in
\* three super-batches
C35_Witness ==
    /\ tf_pc = "returned"
    /\ tf_exc = NoExc
    /\ transform_prompts > 2 * SuperBatchSize
    /\ Len(dispatched) = 3

\* C36: in transform_data no response is processed twice and none is read
\* before it was assigned, whether or not a super-batch ended in a handled
\* API error: the pairs collected so far are all different and there are
\* never more of them than transform prompts.
C36_ResponsesProcessedOnce ==
    /\ tf_exc # "UnboundLocalError"
    /\ Len(inputs) <= transform_prompts
    /\ Cardinality({inputs[j] : j \in DOMAIN inputs}) = Len(inputs)

\* C39: make_dataset_from_samples raises ValueError unless the two lists
\* have the same, positive length; when it succeeds the two columns of the
\* train split have the same length and hold, in order, exactly the pairs
\* in which neither the input nor the output is None.
C39_SamplesChecked ==
    tf_pc \in {"returned", "raised"} =>
        LET K == {j \in DOMAIN inputs \cap DOMAIN outputs :
                     inputs[j] # None /\ outputs[j] # None}
            Nth(r) == CHOOSE j \in K : Cardinality({i \in K : i <= j}) = r
        IN /\ (tf_exc = "ValueError")
                  <=> ~(Len(inputs) = Len(outputs) /\ Len(inputs) > 0)
           /\ tf_exc = NoExc =>
                  dataset_dict =
                      Some(Dataset([r \in 1..Cardinality(K) |-> inputs[Nth(r)]],
                                   [r \in 1..Cardinality(K) |-> outputs[Nth(r)]]))

\* entries of the decoded object whose key contains the word in some case
EntriesLike(dict, word) ==
    {j \in DOMAIN dict : Contains(Lower(dict[j][1]), word)}

\* C37: for a response that decodes to an object with one comment field
\* holding a non-empty string and one label field holding an integer or the
\* text of one, label 0 included, response_mining returns that comment with
\* the label as an integer; and no exception leaves response_mining.
C37_EveryLabelledCommentMined ==
    mining_pc = "done" =>
        /\ mining_result[1].exc = NoExc
        /\ LET resp == mining_content[1]
               comments == EntriesLike(resp.dict, COMMENT)
               labels == EntriesLike(resp.dict, LABEL)
           IN (/\ resp.choices > 0
               /\ resp.wellformed
               /\ Cardinality(comments) = 1
               /\ Cardinality(labels) = 1
               /\ \A j \in comments : /\ resp.dict[j][2].type = "str"
                                       /\ resp.dict[j][2].v # <<>>
               /\ \A j \in labels : IntOf(resp.dict[j][2]).exc = NoExc)
              => \E j \in comments : \E l \in labels :
                    mining_result[1].value =
                        <<resp.dict[j][2], IntOf(resp.dict[l][2]).v>>

\* C38: the demo is resumable stage by stage: a stage runs only in the
\* order of the stages and when the flags of all the stages before it are
\* set; the flag of every stage that ran to its end is in status.yaml; and
\* no stage runs to its end twice unless the user starts from scratch.
C38_StagesResumable ==
    /\ [](/\ \A j \in DOMAIN finished :
               /\ status_yaml # None
               /\ StageFlags[finished[j]] \in status_yaml[1]
          /\ \A i \in DOMAIN finished : \A j \in DOMAIN finished :
               i # j => finished[i] # finished[j])
    /\ [][Len(finished') > Len(finished)
             => /\ EarlierFlags(finished'[Len(finished')]) \subseteq has_been
                /\ \A j \in DOMAIN finished :
                       finished[j] < finished'[Len(finished')]]_vars

====
